---- MODULE Spec2Model ----
(***************************************************************************)
(* Model of AsteroidEnv (src/main3.py): reset / step and the helpers they  *)
(* call.  Positions are integers (the code only ever adds or subtracts     *)
(* whole numbers to 400 and 450.0).  Rewards and the score are counted in  *)
(* tenths, so that 0.1 is 1 and -10.0 is -100.                             *)
(***************************************************************************)
EXTENDS Integers, Sequences, FiniteSets

\* ---------------------------------------------------------------- constants
WIDTH == 800
HEIGHT == 600
PLAYER_SPEED == 3
SIDE_SPEED == 4
ASTEROID_COUNT == 8
ASTEROID_SPEED == 2
LIDAR_RAYS == 24
LIDAR_RANGE == 200
MAX_BLASTS == 5
PLAYER_RADIUS == 15
BLAST_SPEED == 7
BAND_HALF_WIDTH == 150
LIDAR_STEP == 5
RADIUS_MIN == 15
RADIUS_MAX == 40

\* reward values of step, in tenths
REWARD_TICK == 1
REWARD_COLLISION == -100
REWARD_QUIT == 0

\* the band the player is clamped into (HEIGHT * 0.5, HEIGHT * 0.75, WIDTH // 2 -+ 150)
Y_MIN == (HEIGHT * 50) \div 100
Y_MAX == (HEIGHT * 75) \div 100
X_MIN == (WIDTH \div 2) - BAND_HALF_WIDTH
X_MAX == (WIDTH \div 2) + BAND_HALF_WIDTH

\* ------------------------------------------------------------------- bounds
\* longest episode explored (steps since the last reset)
MaxTicks == 312
\* most space key events in the event queue pygame.event.get() hands to one step
MaxSpaces == 6
\* steps of one episode that are handed events or an action
MaxInputSteps == 1
\* events and actions come only at every InputStride-th step of an episode
InputStride == 150
\* the keyboard state changes only before step number KeyWindow of an episode
KeyWindow == 1
\* most events in the queue of a step that is also handed an action
MaxActionEvents == 2
\* most calls of render between two calls of reset or step
MaxRenders == 2
\* longest episode explored with render calls between the steps
RenderTicks == 1

\* -------------------------------------------------------------------- state
VARIABLES
  x, y,          \* self.x, self.y
  blasts,        \* self.blasts: remaining projectile charge
  score,         \* self.score, in tenths
  alive,         \* self.alive
  asteroids,     \* self.asteroids: sequence of [x, y, radius, speed]
  blasts_list,   \* self.blasts_list: sequence of [x, y]
  rng,           \* state of the random module: position in RandomStream
  keys,          \* keyboard state read by pygame.key.get_pressed(): [left, right]
  ret,           \* outcome of the last call of reset or step
  drawn,         \* the sensor values the last render drew, <<>> when it has not run
  last,          \* history: the last reset or step, its inputs and the state it was made in
  renders,       \* history: calls of render since the last reset or step
  tick,          \* history: steps that ran past the event loop since reset
  inputSteps,    \* history: steps since reset that were handed events or an action
  rewardSum,     \* history: sum of the rewards returned since reset, in tenths
  collided       \* history: steps since reset that returned done after a collision

vars == <<x, y, blasts, score, alive, asteroids, blasts_list, rng, keys, ret,
          drawn, last, renders, tick, inputSteps, rewardSum, collided>>

\* ------------------------------------------------------------------ helpers
Clip(v, lo, hi) == IF v < lo THEN lo ELSE IF v > hi THEN hi ELSE v

\* distance(a, b) <= d for whole-number coordinates and d >= 0
DistanceLeq(ax, ay, bx, by, d) ==
  (ax - bx) * (ax - bx) + (ay - by) * (ay - by) <= d * d

\* ------------------------------------------------------------ random module
\* The draws of _new_asteroid, <<randint(0, WIDTH), randint(-HEIGHT, 0),
\* randint(15, 40)>>, as the generator hands them out one after the other.
RandomStream ==
  << <<400,    0, 40>>, <<700,    0, 15>>, <<250,  -20, 30>>, <<550, -100, 15>>,
     <<  0, -600, 15>>, <<800, -300, 40>>, <<100, -450, 25>>, <<650, -200, 20>>,
     <<250,   -4, 15>>, <<250,   -4, 15>>, <<400, -300, 40>>, <<550,    0, 40>>,
     <<300, -150, 35>>, <<500,  -50, 16>>, <<120, -599, 39>>, <<790,   -1, 15>> >>

Seeds == {1, 9}

NextRng(r) == (r % Len(RandomStream)) + 1

\* mutant: the vertical draw is taken below the top bound, randint(0, HEIGHT)
NewAsteroidBelow(r) ==
  [x |-> RandomStream[r][1], y |-> -RandomStream[r][2],
   radius |-> RandomStream[r][3], speed |-> ASTEROID_SPEED]

NewAsteroid(r) ==
  [x |-> RandomStream[r][1], y |-> RandomStream[r][2],
   radius |-> RandomStream[r][3], speed |-> ASTEROID_SPEED]

\* [self._new_asteroid() for _ in range(n)] starting at generator state r
RECURSIVE SpawnMany(_, _)
SpawnMany(n, r) ==
  IF n = 0 THEN <<>>
  ELSE <<NewAsteroid(r)>> \o SpawnMany(n - 1, NextRng(r))

RECURSIVE AdvanceRng(_, _)
AdvanceRng(n, r) == IF n = 0 THEN r ELSE AdvanceRng(n - 1, NextRng(r))

\* ------------------------------------------------------------------- player
MovePlayerY(py) == Clip(py - PLAYER_SPEED, Y_MIN, Y_MAX)

\* mutant: the horizontal clamp is missing
MovePlayerXUnclipped(px, k) ==
  LET x1 == IF k.left THEN px - SIDE_SPEED ELSE px
  IN IF k.right THEN x1 + SIDE_SPEED ELSE x1

MovePlayerX(px, k) ==
  LET x1 == IF k.left THEN px - SIDE_SPEED ELSE px
      x2 == IF k.right THEN x1 + SIDE_SPEED ELSE x1
  IN Clip(x2, X_MIN, X_MAX)

\* ---------------------------------------------------------------- asteroids
\* mutant: an asteroid is given up as soon as its lower edge passes the bottom
FallenLeadingEdge(a) == ~(a.y + a.radius <= HEIGHT)

Fallen(a) == ~(a.y - a.radius <= HEIGHT)

\* the list built so far with a in front, and the generator as rest left it
Cons(a, rest) == [asteroids |-> <<a>> \o rest.asteroids, rng |-> rest.rng]

\* the list comprehension of _move_asteroids over the already advanced list
RECURSIVE ReplaceFallen(_, _)
ReplaceFallen(as, r) ==
  IF as = <<>> THEN [asteroids |-> <<>>, rng |-> r]
  ELSE IF Fallen(Head(as))
       THEN Cons(NewAsteroid(r), ReplaceFallen(Tail(as), NextRng(r)))
       ELSE Cons(Head(as), ReplaceFallen(Tail(as), r))

\* mutant: the list is rebuilt before the asteroids are advanced
MoveAsteroidsSpawnFirst(as, r) ==
  LET rep == ReplaceFallen(as, r)
  IN [asteroids |-> [i \in 1..Len(as) |->
                       [rep.asteroids[i] EXCEPT !.y = @ + rep.asteroids[i].speed]],
      rng |-> rep.rng]

MoveAsteroids(as, r) ==
  ReplaceFallen([i \in 1..Len(as) |-> [as[i] EXCEPT !.y = @ + as[i].speed]], r)

\* ------------------------------------------------------------------- blasts
\* mutant: the charge is not tested before shooting
ShootUnguarded(b, bl, px, py) ==
  [blasts |-> b - 1, blasts_list |-> Append(bl, [x |-> px, y |-> py])]

Shoot(b, bl, px, py) ==
  IF b > 0
  THEN [blasts |-> b - 1, blasts_list |-> Append(bl, [x |-> px, y |-> py])]
  ELSE [blasts |-> b, blasts_list |-> bl]

BlastAlive(b) == b.y > 0

\* mutant: projectiles that left the top bound stay in the list
MoveBlastsKeepAll(bl) ==
  [i \in 1..Len(bl) |-> [bl[i] EXCEPT !.y = @ - BLAST_SPEED]]

MoveBlasts(bl) ==
  SelectSeq([i \in 1..Len(bl) |-> [bl[i] EXCEPT !.y = @ - BLAST_SPEED]], BlastAlive)

BlastHits(b, a) == DistanceLeq(b.x, b.y, a.x, a.y, a.radius)

\* index of the first asteroid the blast is inside of, 0 when there is none
FirstHit(b, as) ==
  IF \E i \in 1..Len(as) : BlastHits(b, as[i])
  THEN CHOOSE i \in 1..Len(as) :
         /\ BlastHits(b, as[i])
         /\ \A j \in 1..(i - 1) : ~BlastHits(b, as[j])
  ELSE 0

\* the list hits of _check_blast_hits
RECURSIVE CollectHits(_, _)
CollectHits(bl, as) ==
  IF bl = <<>> THEN <<>>
  ELSE LET i == FirstHit(Head(bl), as)
       IN (IF i = 0 THEN <<>> ELSE <<as[i]>>) \o CollectHits(Tail(bl), as)

\* list.index by equality, 0 when list.remove would raise ValueError
IndexOf(as, h) ==
  IF \E i \in 1..Len(as) : as[i] = h
  THEN CHOOSE i \in 1..Len(as) : as[i] = h /\ \A j \in 1..(i - 1) : as[j] # h
  ELSE 0

RemoveAt(as, i) == SubSeq(as, 1, i - 1) \o SubSeq(as, i + 1, Len(as))

\* mutant: a struck asteroid is removed and not replaced
RECURSIVE ReplaceHitsNoSpawn(_, _, _)
ReplaceHitsNoSpawn(hits, as, r) ==
  IF hits = <<>> THEN [asteroids |-> as, rng |-> r, raised |-> FALSE]
  ELSE LET i == IndexOf(as, Head(hits))
       IN IF i = 0
          THEN [asteroids |-> as, rng |-> r, raised |-> TRUE]
          ELSE ReplaceHitsNoSpawn(Tail(hits), RemoveAt(as, i), r)

\* the loop "for h in hits: remove(h); append(new)"; raised: remove found nothing
RECURSIVE ReplaceHits(_, _, _)
ReplaceHits(hits, as, r) ==
  IF hits = <<>> THEN [asteroids |-> as, rng |-> r, raised |-> FALSE]
  ELSE LET i == IndexOf(as, Head(hits))
       IN IF i = 0
          THEN [asteroids |-> as, rng |-> r, raised |-> TRUE]
          ELSE ReplaceHits(Tail(hits), Append(RemoveAt(as, i), NewAsteroid(r)),
                           NextRng(r))

\* what _check_blast_hits leaves and returns, given its list hits and the
\* outcome of its second loop
HitsResolved(hits, done) ==
  [asteroids |-> done.asteroids, rng |-> done.rng, raised |-> done.raised,
   count |-> Len(hits)]

HitsReplaced(hits, as, r) == HitsResolved(hits, ReplaceHits(hits, as, r))

\* _check_blast_hits: the asteroids and generator it leaves, and len(hits)
CheckBlastHits(bl, as, r) == HitsReplaced(CollectHits(bl, as), as, r)

\* --------------------------------------------------------------- collisions
\* mutant: the loop returns False right after testing the first asteroid
CheckCollisionsFirstOnly(px, py, as) ==
  /\ Len(as) > 0
  /\ DistanceLeq(px, py, as[1].x, as[1].y, PLAYER_RADIUS + as[1].radius)

\* mutant: circles that just touch do not count
CheckCollisionsStrict(px, py, as) ==
  \E i \in 1..Len(as) :
    (px - as[i].x) * (px - as[i].x) + (py - as[i].y) * (py - as[i].y)
      < (PLAYER_RADIUS + as[i].radius) * (PLAYER_RADIUS + as[i].radius)

CheckCollisions(px, py, as) ==
  \E i \in 1..Len(as) :
    DistanceLeq(px, py, as[i].x, as[i].y, PLAYER_RADIUS + as[i].radius)

\* -------------------------------------------------------------------- events
EventTypes == {"QUIT", "KEYDOWN_SPACE", "OTHER"}

Spaces(n) == [i \in 1..n |-> "KEYDOWN_SPACE"]

\* the queues handed to step: n space key events, alone, followed by a QUIT, or
\* followed by a QUIT and one more space key event; and a queue of an unrelated event
EventQueues ==
  {<<"OTHER">>, <<"OTHER", "KEYDOWN_SPACE">>}
    \cup {Spaces(n) : n \in 0..MaxSpaces}
    \cup {Spaces(n) \o <<"QUIT">> : n \in 0..MaxSpaces}
    \cup {Spaces(n) \o <<"QUIT", "KEYDOWN_SPACE">> : n \in 0..MaxSpaces}

KeyStates == [left : BOOLEAN, right : BOOLEAN]

\* values of the parameter action of step: None (the default, manual mode), the
\* two requests a driver knows of, and a value that is neither
Actions == {"None", "noop", "shoot", "unknown"}

\* what step does with its parameter action before and after the event loop:
\* it never reads it, so the charge and the projectiles are the event loop's
ApplyAction(a, ev) == ev

\* the event loop of step: shoots for every space key event before a QUIT
RECURSIVE HandleEvents(_, _, _, _, _)
HandleEvents(q, b, bl, px, py) ==
  IF q = <<>> THEN [quit |-> FALSE, blasts |-> b, blasts_list |-> bl]
  ELSE IF Head(q) = "QUIT" THEN [quit |-> TRUE, blasts |-> b, blasts_list |-> bl]
  ELSE IF Head(q) = "KEYDOWN_SPACE"
       THEN LET s == Shoot(b, bl, px, py)
            IN HandleEvents(Tail(q), s.blasts, s.blasts_list, px, py)
       ELSE HandleEvents(Tail(q), b, bl, px, py)

\* space key events the loop reaches: those before the first QUIT
RECURSIVE SpacesHandled(_)
SpacesHandled(q) ==
  IF q = <<>> \/ Head(q) = "QUIT" THEN 0
  ELSE (IF Head(q) = "KEYDOWN_SPACE" THEN 1 ELSE 0) + SpacesHandled(Tail(q))

HasQuit(q) == \E i \in 1..Len(q) : q[i] = "QUIT"

\* -------------------------------------------------------------------- lidar
\* cos and sin of the 24 ray angles 0, 15, ..., 345 degrees, times TRIG_ONE
TRIG_ONE == 1000000
COS ==
  <<1000000, 965926, 866025, 707107, 500000, 258819, 0, -258819, -500000,
    -707107, -866025, -965926, -1000000, -965926, -866025, -707107, -500000,
    -258819, 0, 258819, 500000, 707107, 866025, 965926>>
SIN ==
  <<0, 258819, 500000, 707107, 866025, 965926, 1000000, 965926, 866025,
    707107, 500000, 258819, 0, -258819, -500000, -707107, -866025, -965926,
    -1000000, -965926, -866025, -707107, -500000, -258819>>

\* sample points are kept in units of 1 / SUBPIXEL of a pixel, rounded down
SUBPIXEL == 500
\* an observation value v stands for v / OBS_ONE
OBS_ONE == 1000

Abs(v) == IF v < 0 THEN -v ELSE v

\* rx = self.x + dx * r (and ry alike), in subpixels
RayPoint(p, trig, r) == p * SUBPIXEL + (trig * r) \div (TRIG_ONE \div SUBPIXEL)

OutOfWorld(rx, ry) ==
  rx < 0 \/ rx >= WIDTH * SUBPIXEL \/ ry < 0 \/ ry >= HEIGHT * SUBPIXEL

\* a point dx, dy away from a centre is within d of it
WithinRadius(dx, dy, d) ==
  Abs(dx) <= d /\ Abs(dy) <= d /\ dx * dx + dy * dy <= d * d

\* distance((rx, ry), (a.x, a.y)) <= a.radius, in subpixels
RayInside(rx, ry, a) ==
  WithinRadius(rx - a.x * SUBPIXEL, ry - a.y * SUBPIXEL, a.radius * SUBPIXEL)

RECURSIVE RayDist(_, _, _, _, _)

\* the body of the loop over r, at the sample point (rx, ry)
RaySample(px, py, as, i, r, rx, ry) ==
  IF OutOfWorld(rx, ry) THEN r
  ELSE IF \E k \in 1..Len(as) : RayInside(rx, ry, as[k]) THEN r
  ELSE RayDist(px, py, as, i, r + LIDAR_STEP)

\* mutant: a ray that met nothing records its last sample, not LIDAR_RANGE
RayDistLastSample(px, py, as, i, r) ==
  IF r >= LIDAR_RANGE THEN r - LIDAR_STEP
  ELSE RaySample(px, py, as, i, r, RayPoint(px, COS[i], r), RayPoint(py, SIN[i], r))

\* the march of ray i from r on: the first r at which the sample point is out
\* of the world or inside an asteroid, LIDAR_RANGE when there is none
RayDist(px, py, as, i, r) ==
  IF r >= LIDAR_RANGE THEN LIDAR_RANGE
  ELSE RaySample(px, py, as, i, r, RayPoint(px, COS[i], r), RayPoint(py, SIN[i], r))

Normalize(dist) == (dist * OBS_ONE) \div LIDAR_RANGE

GetLidar(px, py, as) ==
  [i \in 1..LIDAR_RAYS |-> Normalize(RayDist(px, py, as, i, 0))]

\* ------------------------------------------------------------------ returns
NoInfo == [empty |-> TRUE, score |-> 0, alive |-> FALSE]

Info(s, a) == [empty |-> FALSE, score |-> s, alive |-> a]

\* kind: "reset" (returns the observation), "step" (returns the 4-tuple past the
\* event loop), "quit" (returns None, 0, True, {}), "raise" (step raised ValueError);
\* hasObs: the observation slot holds _get_observation() of the state, not None
Returned(kind, hasObs, reward, done, info) ==
  [kind |-> kind, hasObs |-> hasObs, reward |-> reward, done |-> done, info |-> info]

\* the observation the last call returned
Observation ==
  [none |-> ~ret.hasObs,
   values |-> IF ret.hasObs THEN GetLidar(x, y, asteroids) ELSE <<>>]

\* what a call found: the state it was made in and what it was handed
Call(op, q, a, hits, fallen) ==
  [op |-> op, queue |-> q, action |-> a, hits |-> hits, fallen |-> fallen,
   blasts |-> blasts, flight |-> Len(blasts_list), done |-> ret.done]

\* ------------------------------------------------------------------ actions
NoKeys == [left |-> FALSE, right |-> FALSE]

Init ==
  \E seed \in Seeds :
    /\ x = WIDTH \div 2
    /\ y = Y_MAX
    /\ blasts = MAX_BLASTS
    /\ score = 0
    /\ alive = TRUE
    /\ asteroids = SpawnMany(ASTEROID_COUNT, seed)
    /\ rng = AdvanceRng(ASTEROID_COUNT, seed)
    /\ blasts_list = <<>>
    /\ keys = NoKeys
    /\ ret = Returned("reset", TRUE, 0, FALSE, NoInfo)
    /\ drawn = <<>>
    /\ last = [op |-> "init", queue |-> <<>>, action |-> "None", hits |-> 0,
               fallen |-> 0, blasts |-> MAX_BLASTS, flight |-> 0, done |-> FALSE]
    /\ renders = 0
    /\ tick = 0
    /\ inputSteps = 0
    /\ rewardSum = 0
    /\ collided = 0

\* mutant: reset leaves the projectile list alone
ResetKeepsProjectiles(seed) ==
  /\ x' = WIDTH \div 2
  /\ y' = Y_MAX
  /\ blasts' = MAX_BLASTS
  /\ score' = 0
  /\ alive' = TRUE
  /\ asteroids' = SpawnMany(ASTEROID_COUNT, seed)
  /\ rng' = AdvanceRng(ASTEROID_COUNT, seed)
  /\ UNCHANGED blasts_list

ResetTo(seed) ==
  /\ x' = WIDTH \div 2
  /\ y' = Y_MAX
  /\ blasts' = MAX_BLASTS
  /\ score' = 0
  /\ alive' = TRUE
  /\ asteroids' = SpawnMany(ASTEROID_COUNT, seed)
  /\ rng' = AdvanceRng(ASTEROID_COUNT, seed)
  /\ blasts_list' = <<>>

Reset ==
  /\ \E seed \in Seeds : ResetTo(seed)
  /\ ret' = Returned("reset", TRUE, 0, FALSE, NoInfo)
  /\ last' = Call("reset", <<>>, "None", 0, 0)
  /\ drawn' = <<>>
  /\ renders' = 0
  /\ tick' = 0
  /\ inputSteps' = 0
  /\ rewardSum' = 0
  /\ collided' = 0
  /\ UNCHANGED keys

\* mutant: the collision penalty is -1.0
RewardSmallPenalty(done) == IF ~done THEN REWARD_TICK ELSE -10

\* mutant: the terminal tick's reward is not added to the score
AddScoreSkipTerminal(s, reward) == IF reward < 0 THEN s ELSE s + reward

Reward(done) == IF ~done THEN REWARD_TICK ELSE REWARD_COLLISION

AddScore(s, reward) == s + reward

\* step returns at the QUIT event: only the shots before it have acted
StepQuit(q, a, ev) ==
  /\ ret' = Returned("quit", FALSE, REWARD_QUIT, TRUE, NoInfo)
  /\ last' = Call("step", q, a, 0, 0)
  /\ blasts' = ev.blasts
  /\ blasts_list' = ev.blasts_list
  /\ rewardSum' = rewardSum + REWARD_QUIT
  /\ UNCHANGED <<x, y, score, alive, asteroids, rng, tick, collided>>

\* asteroids of the advanced list that the list comprehension replaces
FallenCount(as) ==
  Cardinality({i \in 1..Len(as) : Fallen([as[i] EXCEPT !.y = @ + as[i].speed])})

\* the end of step: the reward, the score and the returned tuple
StepReturn(done, reward) ==
  /\ score' = AddScore(score, reward)
  /\ rewardSum' = rewardSum + reward
  /\ collided' = IF done THEN collided + 1 ELSE collided
  /\ ret' = Returned("step", TRUE, reward, done, Info(AddScore(score, reward), ~done))

\* step from _check_collisions on, unless _check_blast_hits raised
StepCollide(hit, done) ==
  IF hit.raised
  THEN /\ ret' = Returned("raise", FALSE, 0, FALSE, NoInfo)
       /\ UNCHANGED <<score, rewardSum, collided>>
  ELSE StepReturn(done, Reward(done))

\* step from _check_blast_hits on
StepHits(x1, y1, hit) ==
  /\ asteroids' = hit.asteroids
  /\ rng' = hit.rng
  /\ StepCollide(hit, CheckCollisions(x1, y1, hit.asteroids))

\* step after the moves of player, asteroids and blasts
StepMoved(q, a, x1, y1, mv, bl1, hit) ==
  /\ x' = x1
  /\ y' = y1
  /\ blasts_list' = bl1
  /\ last' = Call("step", q, a, hit.count, FallenCount(asteroids))
  /\ StepHits(x1, y1, hit)

StepMoves(q, a, x1, y1, mv, bl1) ==
  StepMoved(q, a, x1, y1, mv, bl1, CheckBlastHits(bl1, mv.asteroids, mv.rng))

\* step past the event loop
StepRun(k, q, a, ev) ==
  /\ blasts' = ev.blasts
  /\ tick' = tick + 1
  /\ UNCHANGED alive
  /\ StepMoves(q, a, MovePlayerX(x, k), MovePlayerY(y),
               MoveAsteroids(asteroids, rng), MoveBlasts(ev.blasts_list))

InputAllowed == inputSteps < MaxInputSteps /\ tick % InputStride = 0

Step ==
  /\ ret.kind # "raise"
  /\ tick < MaxTicks
  /\ drawn' = <<>>
  /\ renders' = 0
  /\ \E k \in KeyStates :
       /\ k # keys => tick < KeyWindow
       /\ keys' = k
       /\ \E q \in EventQueues :
            /\ q # <<>> => InputAllowed
            /\ \E a \in Actions :
                 /\ a # "None" => (InputAllowed /\ Len(q) <= MaxActionEvents)
                 /\ inputSteps' = IF q = <<>> /\ a = "None" THEN inputSteps
                                  ELSE inputSteps + 1
                 /\ LET ev == ApplyAction(a, HandleEvents(q, blasts, blasts_list, x, y))
                    IN IF ev.quit THEN StepQuit(q, a, ev) ELSE StepRun(k, q, a, ev)

Next == Step \/ Reset

\* render: draws the world and the rays of a fresh _get_lidar(); writes no field
Render ==
  /\ renders < MaxRenders
  /\ drawn' = GetLidar(x, y, asteroids)
  /\ renders' = renders + 1
  /\ UNCHANGED <<x, y, blasts, score, alive, asteroids, blasts_list, rng, keys,
                 ret, last, tick, inputSteps, rewardSum, collided>>

Spec == Init /\ [][Next]_vars

\* the driver loop with its render calls: the first steps of every episode
StepEarly == tick < RenderTicks /\ Step

NextRender == StepEarly \/ Reset \/ Render

SpecRender == Init /\ [][NextRender]_vars

\* ------------------------------------------------------------------- claims
\* the geometry of a collision, stated on the state a step leaves behind
Touching ==
  \E i \in 1..Len(asteroids) :
    (x - asteroids[i].x) * (x - asteroids[i].x)
      + (y - asteroids[i].y) * (y - asteroids[i].y)
    <= (PLAYER_RADIUS + asteroids[i].radius) * (PLAYER_RADIUS + asteroids[i].radius)

\* an obstacle sits at the player's exact position, no smaller than the player
ObstacleOnPlayer ==
  \E i \in 1..Len(asteroids) :
    /\ asteroids[i].x = x
    /\ asteroids[i].y = y
    /\ asteroids[i].radius >= PLAYER_RADIUS

\* what _new_asteroid can return
FreshAsteroid(a) ==
  /\ a.x \in 0..WIDTH
  /\ a.y \in (-HEIGHT)..0
  /\ a.radius \in RADIUS_MIN..RADIUS_MAX
  /\ a.speed = ASTEROID_SPEED

\* C1: after reset and after any number of steps, whatever left the bottom bound
\* or was hit, the world holds exactly ASTEROID_COUNT = 8 obstacles.
C1_ObstacleCount == Len(asteroids) = ASTEROID_COUNT /\ ASTEROID_COUNT = 8

\* a step in which an obstacle left the bottom bound, in an episode with shots
C1_Witness ==
  /\ last.op = "step"
  /\ last.fallen > 0
  /\ blasts < MAX_BLASTS
  /\ Len(asteroids) = 8

\* C2: the charge stays within [0, MAX_BLASTS]; every space key event the step
\* reaches while the charge is positive takes one charge and appends one
\* projectile at the player's position, and the ones that find the charge at 0
\* leave it at 0 and append nothing, with no error and no effect on the reward.
C2_Charge ==
  /\ blasts \in 0..MAX_BLASTS
  /\ [][last'.op = "step" =>
          LET n     == SpacesHandled(last'.queue)
              fired == IF n < blasts THEN n ELSE blasts
              len   == Len(blasts_list')
          IN /\ blasts' \in 0..MAX_BLASTS
             /\ blasts' = blasts - fired
             /\ n >= blasts => blasts' = 0
             /\ ret'.kind = "quit" =>
                  blasts_list' = blasts_list \o [i \in 1..fired |-> [x |-> x, y |-> y]]
             /\ ret'.kind # "quit" =>
                  /\ len <= Len(blasts_list) + fired
                  /\ len >= fired
                  /\ \A i \in 1..fired :
                       blasts_list'[len - fired + i] = [x |-> x, y |-> y - BLAST_SPEED]
             /\ (n > blasts /\ ~HasQuit(last'.queue) /\ last'.hits = 0) =>
                  /\ ret'.kind = "step"
                  /\ ret'.reward = IF ret'.done THEN REWARD_COLLISION ELSE REWARD_TICK
     ]_vars

\* a step that was handed more shoot requests than there was charge
C2_Witness ==
  /\ last.op = "step"
  /\ SpacesHandled(last.queue) > last.blasts
  /\ blasts = 0
  /\ Len(blasts_list) = last.flight + last.blasts

\* C3: after reset and after any step the player's x is within [250, 550] and
\* the player's y within [300, 450].
C3_PlayerBand ==
  /\ x >= 250 /\ x <= 550
  /\ y >= 300 /\ y <= 450
  /\ X_MIN = 250 /\ X_MAX = 550 /\ Y_MIN = 300 /\ Y_MAX = 450

\* the player held left until the clamp acted, and has reached the top of its band
C3_Witness ==
  /\ last.op = "step"
  /\ keys.left /\ ~keys.right
  /\ x = 250
  /\ y = 300
  /\ tick > 50

\* C4: a step that received no quit signal returns 0.1 when done is false and
\* -10.0, with done true, when a collision is detected in that tick; it returns
\* no other reward.
C4_RewardLaw ==
  ret.kind = "step" =>
    /\ ret.reward \in {1, -100}
    /\ ~ret.done => ret.reward = 1
    /\ Touching => (ret.done /\ ret.reward = -100)
    /\ ret.done => Touching

\* a step that detected a collision
C4_Witness == ret.kind = "step" /\ ret.done /\ ret.reward = -100 /\ Touching

\* C5 as claimed: from a state with an obstacle on the player's exact position,
\* the next step returns done and -10.0 whatever it is handed (read here for the
\* steps that received no quit signal and returned).
C5_Original ==
  [][(alive /\ ObstacleOnPlayer /\ last'.op = "step" /\ ret'.kind = "step")
       => (ret'.done /\ ret'.reward = REWARD_COLLISION)]_vars

\* C5 as amended: from a state with an obstacle on the player's exact position,
\* a step that receives no quit signal and in which no projectile hits an
\* obstacle returns done and -10.0, whatever the key states.
C5_Amended ==
  [][(alive /\ ObstacleOnPlayer /\ last'.op = "step"
        /\ ~HasQuit(last'.queue) /\ last'.hits = 0)
       => (ret'.kind = "step" /\ ret'.done /\ ret'.reward = REWARD_COLLISION)]_vars

\* the state such a step leaves: the player, at rest in its band, had an obstacle
\* on its position, which has moved on by its speed
C5_Witness ==
  /\ last.op = "step" /\ ~HasQuit(last.queue) /\ last.hits = 0
  /\ ret.kind = "step" /\ ret.done /\ ret.reward = -100
  /\ tick > 51 /\ y = Y_MIN
  /\ keys = NoKeys
  /\ \E i \in 1..Len(asteroids) :
       /\ asteroids[i].x = x
       /\ asteroids[i].y = y + ASTEROID_SPEED
       /\ asteroids[i].radius >= PLAYER_RADIUS

\* C6: a step handed a quit signal returns done with reward 0 and empty info,
\* and changes neither player position, charge, projectiles, obstacles nor score,
\* even with shoot requests in the same queue.
C6_QuitFrame ==
  [][(last'.op = "step" /\ HasQuit(last'.queue))
       => /\ ret'.kind = "quit"
          /\ ret'.done /\ ret'.reward = 0 /\ ret'.info.empty
          /\ UNCHANGED <<x, y, blasts, blasts_list, asteroids, score>>]_vars

\* C7: every observation returned by reset or by step is a sequence of exactly
\* LIDAR_RAYS = 24 values, each within [0.0, 1.0].
C7_ObservationShape ==
  ret.kind \in {"reset", "step", "quit"} =>
    /\ ~Observation.none
    /\ Len(Observation.values) = 24
    /\ \A i \in 1..Len(Observation.values) :
         Observation.values[i] >= 0 /\ Observation.values[i] <= OBS_ONE

\* C8: the score is the sum of the rewards returned since the last reset: 0.1
\* for each surviving tick, -10.0 for each collision tick, 0 for a quit tick,
\* nothing for a projectile hit; info reports this score on a non-quit step.
C8_ScoreIsRewardSum ==
  /\ score = rewardSum
  /\ score = (tick - collided - (IF ret.kind = "raise" THEN 1 ELSE 0)) - 100 * collided
  /\ ret.kind = "step" => (~ret.info.empty /\ ret.info.score = score)

\* a projectile hit in an episode that has seen a collision
C8_Witness ==
  /\ ret.kind = "step"
  /\ last.hits > 0
  /\ collided > 0
  /\ tick > collided
  /\ score = (tick - collided) - 100 * collided

\* C9: the alive flag is true after reset and false after any step that returns
\* done, by collision or by quit; info's alive on a non-quit step agrees with it.
C9_EpisodeState ==
  /\ ret.kind = "reset" => alive
  /\ ret.kind \in {"step", "quit"} => (alive <=> ~ret.done)
  /\ ret.kind = "step" => ret.info.alive = alive

\* C10: reset, from any state, leaves the player at (WIDTH/2, 0.75*HEIGHT), the
\* charge at MAX_BLASTS, the score at 0, alive true, ASTEROID_COUNT freshly
\* spawned obstacles and no projectile.
C10_Reset ==
  ret.kind = "reset" =>
    /\ x = 400 /\ 2 * x = WIDTH
    /\ y = 450 /\ 4 * y = 3 * HEIGHT
    /\ blasts = MAX_BLASTS
    /\ score = 0
    /\ alive
    /\ Len(asteroids) = ASTEROID_COUNT
    /\ \A i \in 1..Len(asteroids) : FreshAsteroid(asteroids[i])
    /\ blasts_list = <<>>

\* reset called in a terminated episode with charge used and projectiles in flight
C10_Witness ==
  /\ ret.kind = "reset"
  /\ last.op = "reset"
  /\ last.done
  /\ last.flight > 0
  /\ last.blasts < MAX_BLASTS

\* ------------------------------------------------------- claims on the sensor
\* the inputs of _get_lidar the sensor scenarios are run on: player positions of
\* the band, and worlds with no obstacle, with fresh obstacles, with one nearby
LidarXs == {250, 300, 350, 400, 450, 500, 550}

LidarYs == {300, 350, 400, 404, 405, 450}

LidarWorlds ==
  {<<>>, SpawnMany(ASTEROID_COUNT, 1),
   <<[x |-> 400, y |-> 280, radius |-> 20, speed |-> ASTEROID_SPEED]>>}

InitLidar ==
  /\ x \in LidarXs
  /\ y \in LidarYs
  /\ asteroids \in LidarWorlds
  /\ blasts = MAX_BLASTS
  /\ score = 0
  /\ alive = TRUE
  /\ rng = 1
  /\ blasts_list = <<>>
  /\ keys = NoKeys
  /\ ret = Returned("reset", TRUE, 0, FALSE, NoInfo)
  /\ drawn = <<>>
  /\ last = [op |-> "init", queue |-> <<>>, action |-> "None", hits |-> 0,
             fallen |-> 0, blasts |-> MAX_BLASTS, flight |-> 0, done |-> FALSE]
  /\ renders = 0
  /\ tick = 0
  /\ inputSteps = 0
  /\ rewardSum = 0
  /\ collided = 0

SpecLidar == InitLidar /\ [][Render]_vars

\* the radii range(0, LIDAR_RANGE, 5) a ray is sampled at
SampleRadii == {r \in 0..(LIDAR_RANGE - 1) : r % LIDAR_STEP = 0}

\* every sample point of every ray from (px, py) lies inside the world
AllSamplesInside(px, py) ==
  \A i \in 1..LIDAR_RAYS : \A r \in SampleRadii :
    ~OutOfWorld(RayPoint(px, COS[i], r), RayPoint(py, SIN[i], r))

\* C11: render changes neither player position, charge, projectiles, obstacles,
\* score nor alive flag; called twice with no step in between it draws the same
\* sensor values both times, and they are the observation that the preceding
\* reset or step returned.
C11_RenderPure ==
  [][renders' = renders + 1 =>
       /\ UNCHANGED <<x, y, blasts, blasts_list, asteroids, score, alive>>
       /\ renders > 0 => drawn' = drawn
       /\ ~Observation.none
       /\ drawn' = Observation.values]_vars

\* the outcome of a step handed keys k, queue q and the no-op action
NoOpOutcome(k, q) ==
  LET ev == ApplyAction("noop", HandleEvents(q, blasts, blasts_list, x, y))
      x1 == MovePlayerX(x, k)
      y1 == MovePlayerY(y)
      mv == MoveAsteroids(asteroids, rng)
      bl1 == MoveBlasts(ev.blasts_list)
      hit == CheckBlastHits(bl1, mv.asteroids, mv.rng)
      done == CheckCollisions(x1, y1, hit.asteroids)
  IN IF ev.quit
     THEN [x |-> x, y |-> y, blasts |-> ev.blasts, blasts_list |-> ev.blasts_list,
           asteroids |-> asteroids, score |-> score, alive |-> alive,
           ret |-> Returned("quit", FALSE, REWARD_QUIT, TRUE, NoInfo)]
     ELSE [x |-> x1, y |-> y1, blasts |-> ev.blasts, blasts_list |-> bl1,
           asteroids |-> hit.asteroids,
           score |-> IF hit.raised THEN score ELSE AddScore(score, Reward(done)),
           alive |-> alive,
           ret |-> IF hit.raised THEN Returned("raise", FALSE, 0, FALSE, NoInfo)
                   ELSE Returned("step", TRUE, Reward(done), done,
                                 Info(AddScore(score, Reward(done)), ~done))]

\* C12: a step handed an action that is neither no-op nor shoot signals no error
\* and leaves the state and returns the result that the same step with the no-op
\* action leaves and returns.
C12_UnknownAction ==
  [][(last'.op = "step" /\ last'.action = "unknown") =>
       /\ ret'.kind # "raise"
       /\ [x |-> x', y |-> y', blasts |-> blasts', blasts_list |-> blasts_list',
           asteroids |-> asteroids', score |-> score', alive |-> alive',
           ret |-> ret'] = NoOpOutcome(keys', last'.queue)]_vars

\* C13: with no obstacle in the world and every sample point of every ray inside
\* the world, every ray records LIDAR_RANGE and every sensor value is 1.0.
C13_OpenField ==
  (renders > 0 /\ asteroids = <<>> /\ AllSamplesInside(x, y)) =>
    /\ Len(drawn) = LIDAR_RAYS
    /\ \A i \in 1..LIDAR_RAYS :
         /\ RayDist(x, y, asteroids, i, 0) = LIDAR_RANGE
         /\ drawn[i] = OBS_ONE

\* the sensor has run at the lowest position whose rays all stay inside the world
C13_Witness ==
  /\ renders > 0
  /\ asteroids = <<>>
  /\ y = 404
  /\ AllSamplesInside(x, y)
  /\ ~AllSamplesInside(x, y + 1)
  /\ \A i \in 1..LIDAR_RAYS : drawn[i] = 1000

\* ----------------------------------------- claims on projectiles and obstacles
\* an asteroid moved on by its speed
Advanced(a) == [a EXCEPT !.y = @ + a.speed]

\* the asteroids as the obstacle update of the step now taken leaves them, before
\* hit resolution
AfterUpdate == MoveAsteroids(asteroids, rng).asteroids

\* a step that ran past the event loop and returned
StepReturned == last'.op = "step" /\ ret'.kind = "step"

\* the asteroid at position i after the step now taken was spawned in it: in place
\* of one that left the bottom (no hit shifting the list), or appended for a hit
SpawnedNow(i) ==
  IF last'.hits = 0
  THEN Fallen(Advanced(asteroids[i]))
  ELSE i > Len(asteroids') - last'.hits

\* a is one of the generator's draws, untouched
IsDraw(a) == \E r \in 1..Len(RandomStream) : a = NewAsteroid(r)

TouchesPlayer(px, py, a) ==
  (px - a.x) * (px - a.x) + (py - a.y) * (py - a.y)
    <= (PLAYER_RADIUS + a.radius) * (PLAYER_RADIUS + a.radius)

\* C14: after a step whose hit resolution finds a projectile inside an obstacle,
\* that projectile is no longer in the projectile list, the struck obstacle has
\* been replaced by a fresh one, and no projectile scored more than one hit.
C14_ProjectileDestroyed ==
  [][(StepReturned /\ last'.hits > 0) =>
       /\ \A j \in 1..Len(blasts_list') : FirstHit(blasts_list'[j], AfterUpdate) = 0
       /\ \A i \in 1..Len(asteroids') : SpawnedNow(i) => FreshAsteroid(asteroids'[i])
       /\ last'.hits <= Len(blasts_list) + (blasts - blasts')]_vars

\* C15 as claimed: every obstacle moves down by its speed, and one whose lower
\* edge (y + radius) has passed HEIGHT is replaced by a fresh one in the same
\* tick; no obstacle is left with its lower edge beyond the bottom bound.
C15_Original ==
  /\ \A i \in 1..Len(asteroids) : asteroids[i].y + asteroids[i].radius <= HEIGHT
  /\ [][(StepReturned /\ last'.hits = 0) =>
          \A i \in 1..Len(asteroids) :
            IF Advanced(asteroids[i]).y + asteroids[i].radius > HEIGHT
            THEN FreshAsteroid(asteroids'[i])
            ELSE asteroids'[i] = Advanced(asteroids[i])]_vars

\* C15 as amended: every obstacle moves down by its speed, and one whose upper
\* edge (y - radius) has passed HEIGHT is replaced by a fresh one in the same
\* tick; no obstacle is left with its upper edge beyond the bottom bound.
C15_Amended ==
  /\ \A i \in 1..Len(asteroids) : asteroids[i].y - asteroids[i].radius <= HEIGHT
  /\ [][(StepReturned /\ last'.hits = 0) =>
          \A i \in 1..Len(asteroids) :
            IF Advanced(asteroids[i]).y - asteroids[i].radius > HEIGHT
            THEN FreshAsteroid(asteroids'[i])
            ELSE asteroids'[i] = Advanced(asteroids[i])]_vars

\* a step replaced an obstacle that had left the bottom, while another one, its
\* lower edge beyond the bottom bound, stays
C15_Witness ==
  /\ ret.kind = "step"
  /\ last.fallen > 0
  /\ last.hits = 0
  /\ \E i \in 1..Len(asteroids) :
       /\ asteroids[i].y + asteroids[i].radius > HEIGHT
       /\ asteroids[i].y - asteroids[i].radius <= HEIGHT
  /\ \E i \in 1..Len(asteroids) : asteroids[i].y <= 0 /\ IsDraw(asteroids[i])

\* the list as + as[1..n] read from position n + 1 on: as rotated by n
Rotated(as, n) == [i \in 1..Len(as) |-> as[((i + n - 1) % Len(as)) + 1]]

Reversed(as) == [i \in 1..Len(as) |-> as[Len(as) + 1 - i]]

\* C16: a step that received no quit signal returns done exactly when, in the
\* state it leaves, some obstacle's centre is within player radius + obstacle
\* radius of the player's centre, whatever the order of the obstacles.
C16_DoneIffCollision ==
  ret.kind = "step" =>
    /\ ret.done <=> \E i \in 1..Len(asteroids) : TouchesPlayer(x, y, asteroids[i])
    /\ \A n \in 0..(Len(asteroids) - 1) :
         CheckCollisions(x, y, Rotated(asteroids, n)) = ret.done
    /\ CheckCollisions(x, y, Reversed(asteroids)) = ret.done

\* a step returned done for an obstacle that just touches the player, its centre
\* at exactly the sum of the radii
C16_Witness ==
  /\ ret.kind = "step"
  /\ ret.done
  /\ \A i \in 1..Len(asteroids) :
       TouchesPlayer(x, y, asteroids[i]) =>
         (x - asteroids[i].x) * (x - asteroids[i].x)
           + (y - asteroids[i].y) * (y - asteroids[i].y)
         = (PLAYER_RADIUS + asteroids[i].radius) * (PLAYER_RADIUS + asteroids[i].radius)

\* C17 as claimed: every obstacle spawned by reset or as a replacement has
\* y < 0, x in [0, WIDTH], radius in [15, 40] and speed ASTEROID_SPEED.
C17_Original ==
  /\ ret.kind = "reset" =>
       \A i \in 1..Len(asteroids) :
         FreshAsteroid(asteroids[i]) /\ asteroids[i].y < 0
  /\ [][StepReturned =>
          \A i \in 1..Len(asteroids') :
            SpawnedNow(i) => (FreshAsteroid(asteroids'[i]) /\ asteroids'[i].y < 0)]_vars

\* C17 as amended: every obstacle spawned by reset or as a replacement has
\* y in [-HEIGHT, 0], x in [0, WIDTH], radius in [15, 40] and speed
\* ASTEROID_SPEED, as the generator drew them.
C17_Amended ==
  /\ ret.kind = "reset" =>
       \A i \in 1..Len(asteroids) :
         /\ asteroids[i].x >= 0 /\ asteroids[i].x <= WIDTH
         /\ asteroids[i].y >= -HEIGHT /\ asteroids[i].y <= 0
         /\ asteroids[i].radius >= 15 /\ asteroids[i].radius <= 40
         /\ asteroids[i].speed = ASTEROID_SPEED
         /\ IsDraw(asteroids[i])
  /\ [][StepReturned =>
          \A i \in 1..Len(asteroids') :
            SpawnedNow(i) =>
              /\ asteroids'[i].x >= 0 /\ asteroids'[i].x <= WIDTH
              /\ asteroids'[i].y >= -HEIGHT /\ asteroids'[i].y <= 0
              /\ asteroids'[i].radius >= 15 /\ asteroids'[i].radius <= 40
              /\ asteroids'[i].speed = ASTEROID_SPEED
              /\ IsDraw(asteroids'[i])]_vars

\* a step replaced an obstacle that left the bottom by one spawned at y = 0
C17_Witness ==
  /\ ret.kind = "step"
  /\ last.fallen > 0
  /\ last.hits = 0
  /\ \E i \in 1..Len(asteroids) : asteroids[i].y = 0 /\ IsDraw(asteroids[i])

\* C18: hit resolution never raises, with two or more projectiles inside the
\* same obstacle as well: every step that received no quit signal returns, and
\* every struck obstacle has been removed and replaced by a fresh one once.
C18_HitResolutionReturns ==
  [][(last'.op = "step" /\ ~HasQuit(last'.queue)) =>
       /\ ret'.kind = "step"
       /\ IF last'.hits = 0
          THEN asteroids' = AfterUpdate
          ELSE LET struck == {i \in 1..Len(AfterUpdate) :
                                \E j \in 1..Len(blasts_list') :
                                  FirstHit(blasts_list'[j], AfterUpdate) = i}
                   kept   == SelectSeq(AfterUpdate,
                                       LAMBDA a : \A i \in struck : AfterUpdate[i] # a)
               IN /\ Len(asteroids') = Len(kept) + Cardinality(struck)
                  /\ SubSeq(asteroids', 1, Len(kept)) = kept
                  /\ \A i \in (Len(kept) + 1)..Len(asteroids') :
                       FreshAsteroid(asteroids'[i])]_vars

\* C19: no step raises the charge; charge plus projectiles in flight never
\* exceeds MAX_BLASTS; after a step that received no quit signal every
\* projectile in flight has y > 0, and each is a projectile of the state before,
\* or one fired in this step from the player's position, with the same x and 7
\* further up.
C19_ChargeBudget ==
  /\ blasts + Len(blasts_list) <= MAX_BLASTS
  /\ ret.kind = "step" => \A j \in 1..Len(blasts_list) : blasts_list[j].y > 0
  /\ [][last'.op = "step" =>
          /\ blasts' <= blasts
          /\ ret'.kind # "quit" =>
               LET fired == blasts - blasts'
                   all   == blasts_list \o [i \in 1..fired |-> [x |-> x, y |-> y]]
                   gone  == Len(all) - Len(blasts_list')
               IN /\ gone >= 0
                  /\ \A j \in 1..Len(blasts_list') :
                       /\ blasts_list'[j].x = all[j + gone].x
                       /\ blasts_list'[j].y = all[j + gone].y - BLAST_SPEED
                       /\ blasts_list'[j].y > 0]_vars

\* all the charge was fired at x = 400, the player has moved to the left edge of
\* its band, and the projectiles fly on at x = 400
C19_Witness ==
  /\ ret.kind = "step"
  /\ blasts = 0
  /\ Len(blasts_list) = MAX_BLASTS
  /\ x = X_MIN
  /\ \A j \in 1..Len(blasts_list) : blasts_list[j].x = 400 /\ blasts_list[j].y > 0

\* C20: an obstacle does not collide with the player in the tick it is spawned
\* in (its y is at most 0, its radius at most 40, the player's y at least 300),
\* so a step that returns done does so for an obstacle that was there before,
\* and the first step after a reset does not return done.
C20_NoSpawnTickCollision ==
  /\ ret.kind = "reset" =>
       \A i \in 1..Len(asteroids) :
         asteroids[i].y <= 0 /\ ~TouchesPlayer(x, y, asteroids[i])
  /\ [][StepReturned =>
          /\ ret.kind = "reset" => ~ret'.done
          /\ y' >= 300
          /\ \A i \in 1..Len(asteroids') :
               SpawnedNow(i) =>
                 /\ asteroids'[i].y <= 0
                 /\ asteroids'[i].radius <= 40
                 /\ ~TouchesPlayer(x', y', asteroids'[i])
          /\ ret'.done =>
               \E i \in 1..Len(asteroids') :
                 ~SpawnedNow(i) /\ TouchesPlayer(x', y', asteroids'[i])]_vars

\* a step that returned done in the tick in which a replacement was spawned
C20_Witness ==
  /\ ret.kind = "step"
  /\ ret.done
  /\ last.hits + last.fallen > 0
  /\ asteroids[Len(asteroids)].y <= 0

====
